---- MODULE Spec2Model ----
(***************************************************************************)
(* Model of ClaudeConfigManager (claude-config-cli/src/claude_config.rs    *)
(* and src-tauri/src/claude_config.rs): the settings loader with its       *)
(* fallback chain, the merge-and-persist writer, the clearing path, the    *)
(* read-only accessor and the template provisioning, over the files of one *)
(* root directory.                                                         *)
(*                                                                         *)
(* Strings are sequences of one-character strings.  A JSON value is a      *)
(* tagged record.  A structured file's bytes are abstracted to what        *)
(* serde_json::from_str makes of them (a parse error or a Value); the     *)
(* line-oriented CLAUDE.md keeps its characters.                           *)
(***************************************************************************)
EXTENDS Integers, Sequences, FiniteSets, TLC

VARIABLES
  variant,    \* which build runs: "cli" or "tauri"
  resources,  \* src-tauri: the files at the candidate source paths of the template
  claudeDir,  \* <root>/.claude: "absent", "dir", or "file" (something not a directory)
  primary,    \* <root>/.claude/settings.local.json
  alts,       \* the structured alternatives, by file name
  claudeMd,   \* <root>/CLAUDE.md
  template,   \* <root>/CLAUDE.local.md
  last,       \* the last call: operation, arguments, returned Result
  before,     \* history: the primary and template files when the last call began
  calls,      \* calls running step by step on this root, by caller
  events      \* history: the loads and writes of those calls, in order

vars == <<variant, resources, claudeDir, primary, alts, claudeMd, template, last, before,
          calls, events>>

(***************************************************************************)
(* Bounds.                                                                 *)
(***************************************************************************)
NumTokens == 2
MaxLines == 2

(***************************************************************************)
(* serde_json::Value                                                       *)
(***************************************************************************)
Null == [k |-> "null"]
Num(n) == [k |-> "num", n |-> n]
Str(s) == [k |-> "str", s |-> s]
Arr(a) == [k |-> "arr", a |-> a]
Obj(m) == [k |-> "obj", m |-> m]
Bool(b) == [k |-> "bool", b |-> b]

EmptyMap == [x \in {} |-> Null]
EmptyObj == Obj(EmptyMap)

IsObject(v) == v.k = "obj"
IsString(v) == v.k = "str"

\* Value::get(key): Some only for an object holding the key
HasKey(v, key) == IsObject(v) /\ key \in DOMAIN v.m

\* map.insert(key, x) / IndexMut on an object
MapInsert(m, key, x) == [j \in (DOMAIN m) \cup {key} |-> IF j = key THEN x ELSE m[j]]

\* map.remove(key)
MapRemove(m, key) == [j \in (DOMAIN m) \ {key} |-> m[j]]

(***************************************************************************)
(* anyhow::Result                                                          *)
(***************************************************************************)
Ok(v) == [ok |-> TRUE, v |-> v]
Err(e) == [ok |-> FALSE, e |-> e]

(***************************************************************************)
(* Files.                                                                  *)
(***************************************************************************)
Absent == [f |-> "absent"]
\* exists, but fs::read_to_string fails (a directory, bytes that are not UTF-8)
Unreadable == [f |-> "unreadable"]
\* text that serde_json::from_str rejects
Corrupt == [f |-> "text", parse |-> "bad"]
\* a file fs::write has created or truncated and not yet filled: zero bytes
Empty == [f |-> "text", parse |-> "empty"]
\* text that serde_json::from_str parses to v
JsonText(v) == [f |-> "text", parse |-> "ok", v |-> v]
\* text of the line-oriented document
MdText(chars) == [f |-> "md", chars |-> chars]
\* the template destination: a regular file, or a path fs::write cannot write
TplFile(c) == [f |-> "tpl", c |-> c]
Blocked == [f |-> "blocked"]

Exists(file) == file.f # "absent"

\* fs::read_to_string followed by serde_json::from_str
FromStr(file) ==
  IF file.f # "text" THEN Err("io")
  ELSE IF file.parse = "ok" THEN Ok(file.v) ELSE Err("parse")

\* serde_json::to_string_pretty
ToStringPretty(v) == JsonText(v)

(***************************************************************************)
(* str                                                                     *)
(***************************************************************************)
WhiteSpace == {" ", "\t", "\r", "\n"}

\* str::starts_with
StartsWith(s, p) == Len(s) >= Len(p) /\ SubSeq(s, 1, Len(p)) = p

\* position of the first c in s, 0 when there is none
Find(s, c) ==
  IF \E i \in 1..Len(s) : s[i] = c
  THEN CHOOSE i \in 1..Len(s) : s[i] = c /\ \A j \in 1..(i - 1) : s[j] # c
  ELSE 0

\* str::split(c) collected: the segments between the occurrences of c
RECURSIVE Split(_, _)
Split(s, c) ==
  LET i == Find(s, c)
  IN IF i = 0 THEN <<s>>
     ELSE <<SubSeq(s, 1, i - 1)>> \o Split(SubSeq(s, i + 1, Len(s)), c)

\* Iterator::nth(n).unwrap_or(""), n counted from 0
NthOrEmpty(segs, n) == IF n + 1 <= Len(segs) THEN segs[n + 1] ELSE <<>>

\* str::trim
RECURSIVE TrimStart(_)
TrimStart(s) ==
  IF Len(s) > 0 /\ s[1] \in WhiteSpace THEN TrimStart(Tail(s)) ELSE s

RECURSIVE TrimEnd(_)
TrimEnd(s) ==
  IF Len(s) > 0 /\ s[Len(s)] \in WhiteSpace THEN TrimEnd(SubSeq(s, 1, Len(s) - 1)) ELSE s

Trim(s) == TrimEnd(TrimStart(s))

\* str::lines: split at "\n", no final empty line, a "\r" before the "\n" dropped
StrLines(s) ==
  LET segs == Split(s, "\n")
      n == IF segs[Len(segs)] = <<>> THEN Len(segs) - 1 ELSE Len(segs)
      StripCr(l) == IF Len(l) > 0 /\ l[Len(l)] = "\r" THEN SubSeq(l, 1, Len(l) - 1) ELSE l
  IN [i \in 1..n |-> IF i < Len(segs) THEN StripCr(segs[i]) ELSE segs[i]]

(***************************************************************************)
(* parse_claude_md                                                         *)
(***************************************************************************)
PrefixApiKey == <<"A", "N", "T", "H", "R", "O", "P", "I", "C", "_", "A", "P", "I", "_", "K", "E", "Y", "=">>
PrefixBaseUrl == <<"A", "N", "T", "H", "R", "O", "P", "I", "C", "_", "B", "A", "S", "E", "_", "U", "R", "L", "=">>
PrefixClaudeKey == <<"C", "L", "A", "U", "D", "E", "_", "A", "P", "I", "_", "K", "E", "Y", "=">>

\* line.split('=').nth(1).unwrap_or("").trim()
LineValue(line) == Trim(NthOrEmpty(Split(line, "="), 1))

\* mutant: a key already stored is not overwritten
ParseLine_FirstWins(env, line) ==
  LET key == IF StartsWith(Trim(line), PrefixApiKey) THEN "ANTHROPIC_API_KEY"
             ELSE IF StartsWith(Trim(line), PrefixBaseUrl) THEN "ANTHROPIC_BASE_URL"
             ELSE IF StartsWith(Trim(line), PrefixClaudeKey) THEN "CLAUDE_API_KEY"
             ELSE ""
  IN IF key = "" \/ key \in DOMAIN env THEN env
     ELSE MapInsert(env, key, Str(LineValue(line)))

\* one iteration of the loop over content.lines()
ParseLine(env, line) ==
  IF StartsWith(Trim(line), PrefixApiKey)
  THEN MapInsert(env, "ANTHROPIC_API_KEY", Str(LineValue(line)))
  ELSE IF StartsWith(Trim(line), PrefixBaseUrl)
  THEN MapInsert(env, "ANTHROPIC_BASE_URL", Str(LineValue(line)))
  ELSE IF StartsWith(Trim(line), PrefixClaudeKey)
  THEN MapInsert(env, "CLAUDE_API_KEY", Str(LineValue(line)))
  ELSE env

RECURSIVE ParseLines(_, _)
ParseLines(env, lines) ==
  IF lines = <<>> THEN env ELSE ParseLines(ParseLine(env, Head(lines)), Tail(lines))

parse_claude_md(file) ==
  IF file.f # "md" THEN Err("io")
  ELSE LET env_config == ParseLines(EmptyMap, StrLines(file.chars))
       IN IF DOMAIN env_config = {} THEN Ok(EmptyObj)
          ELSE Ok(Obj([j \in {"env"} |-> Obj(env_config)]))

(***************************************************************************)
(* Paths of one root directory.                                            *)
(***************************************************************************)
\* get_alternative_settings_files, in the declared order
get_alternative_settings_files == <<"settings.json", "claude_config.json", ".claude_config", "CLAUDE.md">>

StructuredAlts == {"settings.json", "claude_config.json", ".claude_config"}

\* the alternatives that live inside <root>/.claude
InClaudeDir == {"settings.json", "claude_config.json"}

\* alt_file.ends_with("CLAUDE.md")
EndsWithClaudeMd(name) == name = "CLAUDE.md"

\* candidate source paths of the template, src-tauri build
NumSourcePaths == 6

\* include_str!("../resources/config/CLAUDE.local.md"), the bundled resource
CLAUDE_LOCAL_MD_CONTENT == "bundled CLAUDE.local.md"

CredKeys == {"ANTHROPIC_API_KEY", "ANTHROPIC_AUTH_TOKEN", "ANTHROPIC_BASE_URL"}

(***************************************************************************)
(* read_settings                                                           *)
(***************************************************************************)
\* the file at an alternative path, on the disk (a, md)
AltFile(a, md, name) == IF EndsWithClaudeMd(name) THEN md ELSE a[name]

\* mutant: an alternative that fails to parse ends the scan with the error
RECURSIVE ScanAlternatives_StopsAtCorrupt(_, _, _)
ScanAlternatives_StopsAtCorrupt(a, md, i) ==
  IF i > Len(get_alternative_settings_files) THEN Ok(EmptyObj)
  ELSE LET alt_file == get_alternative_settings_files[i]
           file == AltFile(a, md, alt_file)
       IN IF ~Exists(file) THEN ScanAlternatives_StopsAtCorrupt(a, md, i + 1)
          ELSE IF EndsWithClaudeMd(alt_file) THEN parse_claude_md(file)
          ELSE FromStr(file)

\* mutant: an alternative whose document is no mapping is skipped
RECURSIVE ScanAlternatives_SkipsNonObjects(_, _, _)
ScanAlternatives_SkipsNonObjects(a, md, i) ==
  IF i > Len(get_alternative_settings_files) THEN Ok(EmptyObj)
  ELSE LET alt_file == get_alternative_settings_files[i]
           file == AltFile(a, md, alt_file)
       IN IF ~Exists(file) THEN ScanAlternatives_SkipsNonObjects(a, md, i + 1)
          ELSE IF EndsWithClaudeMd(alt_file) THEN parse_claude_md(file)
          ELSE IF file.f # "text" THEN Err("io")
          ELSE IF FromStr(file).ok /\ IsObject(FromStr(file).v) THEN FromStr(file)
          ELSE ScanAlternatives_SkipsNonObjects(a, md, i + 1)

\* the loop over the alternatives, from position i on
RECURSIVE ScanAlternatives(_, _, _)
ScanAlternatives(a, md, i) ==
  IF i > Len(get_alternative_settings_files) THEN Ok(EmptyObj)
  ELSE LET alt_file == get_alternative_settings_files[i]
           file == AltFile(a, md, alt_file)
       IN IF ~Exists(file) THEN ScanAlternatives(a, md, i + 1)
          ELSE IF EndsWithClaudeMd(alt_file) THEN parse_claude_md(file)
          ELSE IF file.f # "text" THEN Err("io")
          ELSE IF FromStr(file).ok THEN FromStr(file)
          ELSE ScanAlternatives(a, md, i + 1)

\* mutant: a primary file that fails to parse falls through to the alternatives
ReadSettings_FallsThrough(p, a, md) ==
  IF Exists(p) /\ FromStr(p).ok THEN FromStr(p) ELSE ScanAlternatives(a, md, 1)

\* mutant: the alternatives are scanned first, the primary file read last
ReadSettings_AlternativesFirst(p, a, md) ==
  IF ScanAlternatives(a, md, 1) # Ok(EmptyObj) THEN ScanAlternatives(a, md, 1)
  ELSE IF Exists(p) THEN FromStr(p) ELSE Ok(EmptyObj)

\* mutant: without a primary file the document is empty, no alternative is read
ReadSettings_IgnoresAlternatives(p, a, md) ==
  IF Exists(p) THEN FromStr(p) ELSE Ok(EmptyObj)

\* mutant: the loader turns a primary document that is no mapping into an empty one
ReadSettings_Normalizes(p, a, md) ==
  IF Exists(p)
  THEN IF FromStr(p).ok /\ ~IsObject(FromStr(p).v) THEN Ok(EmptyObj) ELSE FromStr(p)
  ELSE ScanAlternatives(a, md, 1)

ReadSettings(p, a, md) ==
  IF Exists(p) THEN FromStr(p) ELSE ScanAlternatives(a, md, 1)

read_settings == ReadSettings(primary, alts, claudeMd)

(***************************************************************************)
(* write_settings                                                          *)
(***************************************************************************)
\* ensure_claude_dir: a missing .claude is created, anything there is kept
ensure_claude_dir(dir) == IF dir = "absent" THEN "dir" ELSE dir

\* fs::write(settings_file) succeeds when .claude is a directory
WriteSettingsOk(dir) == ensure_claude_dir(dir) = "dir"

\* mutant: a document left empty removes the file instead of being written
write_settings_RemovesEmpty(dir, p, settings) ==
  IF ~WriteSettingsOk(dir) THEN p
  ELSE IF settings = EmptyObj THEN Absent ELSE ToStringPretty(settings)

write_settings(dir, p, settings) ==
  IF WriteSettingsOk(dir) THEN ToStringPretty(settings) ELSE p

(***************************************************************************)
(* copy_claude_local_md                                                    *)
(***************************************************************************)
\* src-tauri: the first candidate path that exists, 0 when none does
SourceFile(res) ==
  IF \E i \in 1..NumSourcePaths : Exists(res[i])
  THEN CHOOSE i \in 1..NumSourcePaths :
         Exists(res[i]) /\ \A j \in 1..(i - 1) : ~Exists(res[j])
  ELSE 0

CopyOk(v, res, tpl) ==
  /\ tpl # Blocked
  /\ v = "tauri" => SourceFile(res) # 0

\* mutant: a file already at the destination is left as it is
copy_claude_local_md_KeepsExisting(v, res, tpl) ==
  IF ~CopyOk(v, res, tpl) \/ Exists(tpl) THEN tpl
  ELSE IF v = "cli" THEN TplFile(CLAUDE_LOCAL_MD_CONTENT)
  ELSE res[SourceFile(res)]

copy_claude_local_md(v, res, tpl) ==
  IF ~CopyOk(v, res, tpl) THEN tpl
  ELSE IF v = "cli" THEN TplFile(CLAUDE_LOCAL_MD_CONTENT)
  ELSE res[SourceFile(res)]

(***************************************************************************)
(* Operations.                                                             *)
(***************************************************************************)
Snapshot == [primary |-> primary, template |-> template]

NoArgs == [token |-> <<>>, base_url |-> <<>>, is_sandbox |-> FALSE]

Done(op, args, res) == [op |-> op, args |-> args, res |-> res]

\* mutant: the sandbox flag is written whatever is_sandbox says
EnvConfig_AlwaysSandbox(token, base_url, is_sandbox) ==
  [j \in CredKeys \cup {"IS_SANDBOX"} |->
     IF j = "ANTHROPIC_BASE_URL" THEN Str(base_url)
     ELSE IF j = "IS_SANDBOX" THEN Str(<<"1">>) ELSE Str(token)]

\* the credential block built by update_env_config_with_options
EnvConfig(token, base_url, is_sandbox) ==
  LET env_config == [j \in CredKeys |->
                       IF j = "ANTHROPIC_BASE_URL" THEN Str(base_url) ELSE Str(token)]
  IN IF is_sandbox THEN MapInsert(env_config, "IS_SANDBOX", Str(<<"1">>)) ELSE env_config

\* mutant: the credential block is merged into the env already there
UpdatedSettings_MergesEnv(loaded, token, base_url, is_sandbox) ==
  LET settings == IF ~IsObject(loaded) THEN EmptyObj ELSE loaded
      block == [j \in CredKeys \cup (IF is_sandbox THEN {"IS_SANDBOX"} ELSE {}) |->
                  IF j = "ANTHROPIC_BASE_URL" THEN Str(base_url)
                  ELSE IF j = "IS_SANDBOX" THEN Str(<<"1">>) ELSE Str(token)]
      old == IF HasKey(settings, "env") /\ IsObject(settings.m["env"])
             THEN settings.m["env"].m ELSE EmptyMap
  IN Obj(MapInsert(settings.m, "env",
                   Obj([j \in (DOMAIN old) \cup (DOMAIN block) |->
                          IF j \in DOMAIN block THEN block[j] ELSE old[j]])))

\* mutant: the env found in the document is kept under a backup key
UpdatedSettings_BacksUpEnv(loaded, token, base_url, is_sandbox) ==
  LET settings == IF ~IsObject(loaded) THEN EmptyObj ELSE loaded
      kept == IF "env" \in DOMAIN settings.m
              THEN MapInsert(settings.m, "env.bak", settings.m["env"]) ELSE settings.m
  IN Obj(MapInsert(kept, "env", Obj(EnvConfig(token, base_url, is_sandbox))))

\* the document update_env_config_with_options writes for a loaded one
UpdatedSettings(loaded, token, base_url, is_sandbox) ==
  LET settings == IF ~IsObject(loaded) THEN EmptyObj ELSE loaded
  IN Obj(MapInsert(settings.m, "env", Obj(EnvConfig(token, base_url, is_sandbox))))

\* mutant: the template is provisioned first, and nothing is written when that fails
update_env_config_with_options_CopyFirst(token, base_url, is_sandbox) ==
  LET args == [token |-> token, base_url |-> base_url, is_sandbox |-> is_sandbox]
      loaded == read_settings
  IN /\ before' = Snapshot
     /\ IF ~loaded.ok
        THEN /\ last' = Done("apply", args, loaded)
             /\ UNCHANGED <<variant, resources, claudeDir, primary, alts, claudeMd, template>>
        ELSE IF ~CopyOk(variant, resources, template)
        THEN /\ last' = Done("apply", args, Err("copy"))
             /\ UNCHANGED <<variant, resources, claudeDir, primary, alts, claudeMd, template>>
        ELSE /\ template' = copy_claude_local_md(variant, resources, template)
             /\ claudeDir' = ensure_claude_dir(claudeDir)
             /\ primary' = write_settings(claudeDir, primary,
                                          UpdatedSettings(loaded.v, token, base_url, is_sandbox))
             /\ last' = Done("apply", args,
                             IF WriteSettingsOk(claudeDir) THEN Ok(Bool(TRUE)) ELSE Err("write"))
             /\ UNCHANGED <<variant, resources, alts, claudeMd>>

update_env_config_with_options(token, base_url, is_sandbox) ==
  LET args == [token |-> token, base_url |-> base_url, is_sandbox |-> is_sandbox]
      loaded == read_settings
  IN /\ before' = Snapshot
     /\ IF ~loaded.ok
        THEN /\ last' = Done("apply", args, loaded)
             /\ UNCHANGED <<variant, resources, claudeDir, primary, alts, claudeMd, template>>
        ELSE LET settings == UpdatedSettings(loaded.v, token, base_url, is_sandbox)
             IN /\ claudeDir' = ensure_claude_dir(claudeDir)
                /\ primary' = write_settings(claudeDir, primary, settings)
                /\ template' = IF WriteSettingsOk(claudeDir)
                               THEN copy_claude_local_md(variant, resources, template)
                               ELSE template
                /\ last' = Done("apply", args,
                                IF ~WriteSettingsOk(claudeDir) THEN Err("write")
                                ELSE IF ~CopyOk(variant, resources, template) THEN Err("copy")
                                ELSE Ok(Bool(TRUE)))
                /\ UNCHANGED <<variant, resources, alts, claudeMd>>

\* mutant: an env left empty stays in the document
ClearedSettings_KeepsEmptyEnv(loaded) ==
  IF HasKey(loaded, "env") /\ IsObject(loaded.m["env"])
  THEN Obj(MapInsert(loaded.m, "env",
                     Obj(MapRemove(MapRemove(MapRemove(loaded.m["env"].m,
                           "ANTHROPIC_API_KEY"), "ANTHROPIC_AUTH_TOKEN"), "ANTHROPIC_BASE_URL"))))
  ELSE loaded

\* the document clear_env_config writes for a loaded one
ClearedSettings(loaded) ==
  IF HasKey(loaded, "env") /\ IsObject(loaded.m["env"])
  THEN LET obj == MapRemove(MapRemove(MapRemove(loaded.m["env"].m,
                     "ANTHROPIC_API_KEY"), "ANTHROPIC_AUTH_TOKEN"), "ANTHROPIC_BASE_URL")
       IN IF DOMAIN obj = {} THEN Obj(MapRemove(loaded.m, "env"))
          ELSE Obj(MapInsert(loaded.m, "env", Obj(obj)))
  ELSE loaded

\* mutant: the config directory is created before the document is loaded
clear_env_config_EnsuresDirFirst ==
  LET loaded == read_settings
  IN /\ before' = Snapshot
     /\ claudeDir' = ensure_claude_dir(claudeDir)
     /\ IF ~loaded.ok
        THEN /\ last' = Done("clear", NoArgs, loaded)
             /\ UNCHANGED <<variant, resources, primary, alts, claudeMd, template>>
        ELSE /\ primary' = write_settings(claudeDir, primary, ClearedSettings(loaded.v))
             /\ last' = Done("clear", NoArgs,
                             IF WriteSettingsOk(claudeDir) THEN Ok(Bool(TRUE)) ELSE Err("write"))
             /\ UNCHANGED <<variant, resources, alts, claudeMd, template>>

\* mutant: clearing provisions the template file as applying does
clear_env_config_CopiesTemplate ==
  LET loaded == read_settings
  IN /\ before' = Snapshot
     /\ IF ~loaded.ok
        THEN /\ last' = Done("clear", NoArgs, loaded)
             /\ UNCHANGED <<variant, resources, claudeDir, primary, alts, claudeMd, template>>
        ELSE /\ claudeDir' = ensure_claude_dir(claudeDir)
             /\ primary' = write_settings(claudeDir, primary, ClearedSettings(loaded.v))
             /\ template' = IF WriteSettingsOk(claudeDir)
                            THEN copy_claude_local_md(variant, resources, template)
                            ELSE template
             /\ last' = Done("clear", NoArgs,
                             IF WriteSettingsOk(claudeDir) THEN Ok(Bool(TRUE)) ELSE Err("write"))
             /\ UNCHANGED <<variant, resources, alts, claudeMd>>

clear_env_config ==
  LET loaded == read_settings
  IN /\ before' = Snapshot
     /\ IF ~loaded.ok
        THEN /\ last' = Done("clear", NoArgs, loaded)
             /\ UNCHANGED <<variant, resources, claudeDir, primary, alts, claudeMd, template>>
        ELSE /\ claudeDir' = ensure_claude_dir(claudeDir)
             /\ primary' = write_settings(claudeDir, primary, ClearedSettings(loaded.v))
             /\ last' = Done("clear", NoArgs,
                             IF WriteSettingsOk(claudeDir) THEN Ok(Bool(TRUE)) ELSE Err("write"))
             /\ UNCHANGED <<variant, resources, alts, claudeMd, template>>

\* the HashMap get_env_config builds from a loaded document
EnvStrings(loaded) ==
  IF HasKey(loaded, "env") /\ IsObject(loaded.m["env"])
  THEN LET obj == loaded.m["env"].m
       IN [j \in {i \in DOMAIN obj : IsString(obj[i])} |-> obj[j].s]
  ELSE EmptyMap

\* get_env_config exists in the src-tauri build only
get_env_config ==
  /\ variant = "tauri"
  /\ before' = Snapshot
  /\ last' = Done("get", NoArgs,
                  IF read_settings.ok THEN Ok(EnvStrings(read_settings.v)) ELSE read_settings)
  /\ UNCHANGED <<variant, resources, claudeDir, primary, alts, claudeMd, template>>

\* a bare read_settings, the loader on its own
Load ==
  /\ before' = Snapshot
  /\ last' = Done("load", NoArgs, read_settings)
  /\ UNCHANGED <<variant, resources, claudeDir, primary, alts, claudeMd, template>>

(***************************************************************************)
(* The same calls step by step: two callers on one root, no lock between   *)
(* them.  A call loads, computes its document, then write_settings creates *)
(* or truncates the file (fs::write) and fills it, then the template is    *)
(* provisioned.                                                            *)
(***************************************************************************)
Callers == {1, 2}

Idle == [pc |-> "idle", op |-> "none", args |-> NoArgs, loaded |-> Null, settings |-> Null,
         res |-> Err("none")]

\* the call returns
Return(p, res) == calls' = [calls EXCEPT ![p].pc = "done", ![p].res = res]

\* let mut settings = self.read_settings()?; and the changes made in memory
BeginCall(p, op, args) ==
  /\ calls[p].pc = "idle"
  /\ events' = Append(events, <<p, "load">>)
  /\ IF ~read_settings.ok
     THEN calls' = [calls EXCEPT ![p] = [pc |-> "done", op |-> op, args |-> args, loaded |-> Null,
                                         settings |-> Null, res |-> read_settings]]
     ELSE calls' = [calls EXCEPT ![p] =
                      [pc |-> "loaded", op |-> op, args |-> args, loaded |-> read_settings.v,
                       settings |-> IF op = "apply"
                                    THEN UpdatedSettings(read_settings.v, args.token,
                                                         args.base_url, args.is_sandbox)
                                    ELSE ClearedSettings(read_settings.v),
                       res |-> Err("none")]]
  /\ UNCHANGED <<variant, resources, claudeDir, primary, alts, claudeMd, template, last, before>>

\* mutant: the write is refused when the file changed since the call loaded it
BeginWrite_ChecksUnchanged(p) ==
  /\ calls[p].pc = "loaded"
  /\ events' = Append(events, <<p, "write">>)
  /\ claudeDir' = ensure_claude_dir(claudeDir)
  /\ IF WriteSettingsOk(claudeDir) /\ FromStr(primary) = Ok(calls[p].loaded)
     THEN /\ primary' = Empty
          /\ calls' = [calls EXCEPT ![p].pc = "writing"]
     ELSE /\ primary' = primary
          /\ Return(p, Err("write"))
  /\ UNCHANGED <<variant, resources, alts, claudeMd, template, last, before>>

\* write_settings up to the creation of the file: ensure_claude_dir, then
\* fs::write opens the file, which empties it
BeginWrite(p) ==
  /\ calls[p].pc = "loaded"
  /\ events' = Append(events, <<p, "write">>)
  /\ claudeDir' = ensure_claude_dir(claudeDir)
  /\ IF WriteSettingsOk(claudeDir)
     THEN /\ primary' = Empty
          /\ calls' = [calls EXCEPT ![p].pc = "writing"]
     ELSE /\ primary' = primary
          /\ Return(p, Err("write"))
  /\ UNCHANGED <<variant, resources, alts, claudeMd, template, last, before>>

\* fs::write puts the content into the file
FinishWrite(p) ==
  /\ calls[p].pc = "writing"
  /\ primary' = write_settings(claudeDir, primary, calls[p].settings)
  /\ IF calls[p].op = "apply"
     THEN calls' = [calls EXCEPT ![p].pc = "copying"]
     ELSE Return(p, Ok(Bool(TRUE)))
  /\ events' = Append(events, <<p, "written">>)
  /\ UNCHANGED <<variant, resources, claudeDir, alts, claudeMd, template, last, before>>

\* self.copy_claude_local_md()?; Ok(true)
CopyTemplate(p) ==
  /\ calls[p].pc = "copying"
  /\ template' = copy_claude_local_md(variant, resources, template)
  /\ Return(p, IF CopyOk(variant, resources, template) THEN Ok(Bool(TRUE)) ELSE Err("copy"))
  /\ UNCHANGED <<variant, resources, claudeDir, primary, alts, claudeMd, last, before, events>>

(***************************************************************************)
(* Inputs and starting disks.                                              *)
(***************************************************************************)
Tok(i) == <<"s", "k">> \o [j \in 1..i |-> "="]
Url(i) == <<"h", ":", "/">> \o [j \in 1..i |-> "x"]
\* the accounts a caller applies: a token with its base URL
Accounts == {[token |-> Tok(i), base_url |-> Url(i)] : i \in 1..NumTokens}

\* the env entries a starting primary file may hold, one value per key
SampleEnvValue(key) ==
  IF key \in {"ANTHROPIC_API_KEY", "ANTHROPIC_AUTH_TOKEN"} THEN Str(Tok(1))
  ELSE IF key = "ANTHROPIC_BASE_URL" THEN Str(Url(1))
  ELSE IF key = "IS_SANDBOX" THEN Str(<<"1">>)
  ELSE IF key = "EXTRA" THEN Str(<<"x">>)
  ELSE Num(8080)

SampleEnvKeys == CredKeys \cup {"IS_SANDBOX", "EXTRA", "PORT"}

SampleEnvs ==
  {Obj([j \in S |-> SampleEnvValue(j)]) : S \in SUBSET SampleEnvKeys} \cup {Str(<<"x">>)}

\* objects with or without a sibling key and with or without env
SampleObjects ==
  {Obj(m) : m \in {EmptyMap, [j \in {"foo"} |-> Str(<<"b", "a", "r">>)]}}
  \cup {Obj(MapInsert(m, "env", e)) :
          m \in {EmptyMap, [j \in {"foo"} |-> Str(<<"b", "a", "r">>)]}, e \in SampleEnvs}

SampleNonObjects == {Null, Num(7), Arr(<<Num(1)>>)}

\* the document of a structured alternative, telling the alternatives apart
AltDoc(name) ==
  Obj([j \in {"env", "from"} |->
         IF j = "from" THEN Str(<<name>>)
         ELSE Obj([i \in {"ANTHROPIC_API_KEY", "EXTRA"} |-> Str(<<name>>)])])

\* lines of a CLAUDE.md
MdLineSamples ==
  { <<"A", "N", "T", "H", "R", "O", "P", "I", "C", "_", "A", "P", "I", "_", "K", "E", "Y", "=", "a", "b", "c", "1", "2", "3">>,
    <<" ", "A", "N", "T", "H", "R", "O", "P", "I", "C", "_", "A", "P", "I", "_", "K", "E", "Y", " ", "=", " ", "k", "2", " ">>,
    <<"\t", "A", "N", "T", "H", "R", "O", "P", "I", "C", "_", "A", "P", "I", "_", "K", "E", "Y", "=", " ", "a", "=", "b", "=", "=", "\r">>,
    <<"A", "N", "T", "H", "R", "O", "P", "I", "C", "_", "B", "A", "S", "E", "_", "U", "R", "L", "=", "h", ":", "/", "x", "?", "a", "=", "b">>,
    <<"C", "L", "A", "U", "D", "E", "_", "A", "P", "I", "_", "K", "E", "Y", "=">>,
    <<"#", " ", "A", "N", "T", "H", "R", "O", "P", "I", "C", "_", "A", "P", "I", "_", "K", "E", "Y", "=", "n", "o">>,
    <<"A", "N", "T", "H", "R", "O", "P", "I", "C", "_", "A", "U", "T", "H", "_", "T", "O", "K", "E", "N", "=", "t">>,
    <<"A", "N", "T", "H", "R", "O", "P", "I", "C", "_", "B", "A", "S", "E", "_", "U", "R", "L", "=", "u">> }

\* the lines joined into the text of a file, each ended by "\n"
RECURSIVE JoinLines(_)
JoinLines(ls) == IF ls = <<>> THEN <<>> ELSE Head(ls) \o <<"\n">> \o JoinLines(Tail(ls))

MdContents(n) == {JoinLines(ls) : ls \in UNION {[1..i -> MdLineSamples] : i \in 0..n}}

\* a CLAUDE.md without and one with recognized lines
MdFewContents ==
  {JoinLines(ls) : ls \in {<<<<"#", " ", "n", "o", "t", "e", "s">>>>,
                           <<<<"C", "L", "A", "U", "D", "E", "_", "A", "P", "I", "_", "K", "E", "Y", "=", "c", "k">>>>}}

\* the src-tauri candidate paths hold the bundled resource or nothing
ResourceLayouts ==
  {[i \in 1..NumSourcePaths |-> IF i \in S THEN TplFile(CLAUDE_LOCAL_MD_CONTENT) ELSE Absent] :
     S \in {{}, {2, 5}}}

NoResources == [i \in 1..NumSourcePaths |-> Absent]

InitBuild ==
  /\ variant \in {"cli", "tauri"}
  /\ resources \in IF variant = "cli" THEN {NoResources} ELSE ResourceLayouts
  /\ last = Done("none", NoArgs, Err("none"))
  /\ before = Snapshot
  /\ calls = [p \in Callers |-> Idle]
  /\ events = <<>>

\* a primary file of any shape, next to a few alternatives
InitPrimary ==
  /\ claudeDir = "dir"
  /\ primary \in {JsonText(v) : v \in SampleObjects \cup SampleNonObjects}
  /\ alts \in {[n \in StructuredAlts |-> Absent], [n \in StructuredAlts |-> JsonText(AltDoc(n))]}
  /\ claudeMd = Absent
  /\ template \in {Absent, TplFile("user notes"), Blocked}
  /\ InitBuild

\* alternatives of any shape, next to a few primary files
InitAlternatives ==
  /\ claudeDir \in {"absent", "file", "dir"}
  /\ primary \in IF claudeDir = "dir"
                 THEN {Absent, Unreadable, Corrupt, JsonText(AltDoc("primary"))}
                 ELSE {Absent}
  /\ alts \in [StructuredAlts ->
                 {Absent, Unreadable, Corrupt} \cup {JsonText(v) : v \in SampleNonObjects}
                   \cup {JsonText(AltDoc(n)) : n \in StructuredAlts}]
  /\ \A n \in StructuredAlts : alts[n].f = "text" /\ alts[n].parse = "ok" /\ IsObject(alts[n].v)
                                 => alts[n] = JsonText(AltDoc(n))
  /\ claudeDir # "dir" => \A n \in InClaudeDir : alts[n] = Absent
  /\ primary # Absent => \A n \in StructuredAlts : alts[n] \notin {JsonText(Num(7)), JsonText(Arr(<<Num(1)>>))}
  /\ claudeMd \in IF primary = Absent
                  THEN {Absent, Unreadable} \cup {MdText(c) : c \in MdFewContents}
                  ELSE {Unreadable} \cup {MdText(c) : c \in MdFewContents}
  /\ template = Absent
  /\ variant \in {"cli", "tauri"}
  /\ resources \in IF variant = "cli" THEN {NoResources} ELSE ResourceLayouts
  /\ last = Done("none", NoArgs, Err("none"))
  /\ before = Snapshot
  /\ calls = [p \in Callers |-> Idle]
  /\ events = <<>>

Init == InitPrimary \/ InitAlternatives

\* no primary file and no parseable structured alternative: CLAUDE.md decides
InitMd ==
  /\ claudeDir = "dir"
  /\ primary = Absent
  /\ alts \in {[n \in StructuredAlts |-> Absent], [n \in StructuredAlts |-> Corrupt]}
  /\ claudeMd \in {MdText(c) : c \in MdContents(MaxLines)}
  /\ template = Absent
  /\ variant \in {"cli", "tauri"}
  /\ resources \in IF variant = "cli" THEN {NoResources} ELSE ResourceLayouts \ {NoResources}
  /\ last = Done("none", NoArgs, Err("none"))
  /\ before = Snapshot
  /\ calls = [p \in Callers |-> Idle]
  /\ events = <<>>

\* one caller at a time: every call runs from its load to its return
Next ==
  \/ /\ \E account \in Accounts, is_sandbox \in BOOLEAN :
          update_env_config_with_options(account.token, account.base_url, is_sandbox)
     /\ UNCHANGED <<calls, events>>
  \/ clear_env_config /\ UNCHANGED <<calls, events>>
  \/ get_env_config /\ UNCHANGED <<calls, events>>
  \/ Load /\ UNCHANGED <<calls, events>>

\* a root two callers work on: a primary file with credentials
InitConcurrent ==
  /\ claudeDir = "dir"
  /\ primary \in {JsonText(Obj(MapInsert(m, "env", Obj([j \in S |-> SampleEnvValue(j)])))) :
                    m \in {EmptyMap, [j \in {"foo"} |-> Str(<<"b", "a", "r">>)]},
                    S \in {CredKeys, CredKeys \cup {"EXTRA"}, CredKeys \cup {"IS_SANDBOX", "EXTRA"}}}
  /\ alts = [n \in StructuredAlts |-> Absent]
  /\ claudeMd = Absent
  /\ template \in {Absent, TplFile("user notes")}
  /\ variant = "cli"
  /\ resources = NoResources
  /\ last = Done("none", NoArgs, Err("none"))
  /\ before = Snapshot
  /\ calls = [p \in Callers |-> Idle]
  /\ events = <<>>

\* the steps of the callers in any order, and a reader that loads at any time
NextConcurrent ==
  \/ \E p \in Callers :
       \/ \E account \in Accounts, is_sandbox \in BOOLEAN :
            BeginCall(p, "apply", [token |-> account.token, base_url |-> account.base_url,
                                   is_sandbox |-> is_sandbox])
       \/ BeginCall(p, "clear", NoArgs)
       \/ BeginWrite(p)
       \/ FinishWrite(p)
       \/ CopyTemplate(p)
  \/ Load /\ UNCHANGED <<calls, events>>

Spec == Init /\ [][Next]_vars

SpecConcurrent == InitConcurrent /\ [][NextConcurrent]_vars

SpecMd == InitMd /\ [][Next]_vars

(***************************************************************************)
(* Properties.                                                             *)
(***************************************************************************)
IsJsonText(file) == file.f = "text" /\ file.parse = "ok"
IsMappingFile(file) == IsJsonText(file) /\ IsObject(file.v)

Succeeded(op) == last.op = op /\ last.res.ok

\* what the last call loaded: no operation writes an alternative
LoadedBefore == ReadSettings(before.primary, alts, claudeMd)

\* C1: after a successful apply_credentials or clear_credentials the primary
\* file holds valid JSON whose root is a mapping, whatever the starting disk.
C1_PrimaryIsMappingAfterWrite ==
  (Succeeded("apply") \/ Succeeded("clear")) => IsMappingFile(primary)

\* C2: a successful apply_credentials on a primary file that was a mapping
\* keeps every top-level key other than env with its value, and the new env
\* is exactly the credential block of the call: nothing of the old env stays.
C2_SiblingsKeptEnvReplaced ==
  (Succeeded("apply") /\ IsMappingFile(before.primary)) =>
    /\ IsMappingFile(primary)
    /\ DOMAIN primary.v.m = (DOMAIN before.primary.v.m) \cup {"env"}
    /\ \A key \in (DOMAIN before.primary.v.m) \ {"env"} :
         primary.v.m[key] = before.primary.v.m[key]
    /\ IsObject(primary.v.m["env"])
    /\ LET env == primary.v.m["env"].m
       IN /\ DOMAIN env = CredKeys \cup (IF last.args.is_sandbox THEN {"IS_SANDBOX"} ELSE {})
          /\ env["ANTHROPIC_API_KEY"] = Str(last.args.token)
          /\ env["ANTHROPIC_AUTH_TOKEN"] = Str(last.args.token)
          /\ env["ANTHROPIC_BASE_URL"] = Str(last.args.base_url)
          /\ last.args.is_sandbox => env["IS_SANDBOX"] = Str(<<"1">>)

\* C2 witness: an apply without sandbox on a mapping that had a sibling key,
\* an extra env key and IS_SANDBOX
C2_Witness ==
  /\ Succeeded("apply") /\ ~last.args.is_sandbox
  /\ IsMappingFile(before.primary)
  /\ HasKey(before.primary.v, "foo") /\ HasKey(before.primary.v, "env")
  /\ IsObject(before.primary.v.m["env"])
  /\ {"EXTRA", "IS_SANDBOX"} \subseteq DOMAIN before.primary.v.m["env"].m
  /\ HasKey(primary.v, "foo")

\* C3: get_credentials right after a successful apply_credentials(token,
\* base_url, sandbox) returns exactly the three credential keys with the
\* values of the call, plus IS_SANDBOX = "1" exactly when sandbox was set.
C3_GetAfterApply ==
  [][(last.op = "apply" /\ last.res.ok /\ last'.op = "get") =>
       /\ last'.res.ok
       /\ DOMAIN last'.res.v = CredKeys \cup (IF last.args.is_sandbox THEN {"IS_SANDBOX"} ELSE {})
       /\ last'.res.v["ANTHROPIC_API_KEY"] = last.args.token
       /\ last'.res.v["ANTHROPIC_AUTH_TOKEN"] = last.args.token
       /\ last'.res.v["ANTHROPIC_BASE_URL"] = last.args.base_url
       /\ last.args.is_sandbox => last'.res.v["IS_SANDBOX"] = <<"1">>]_vars

\* C3 witness: a get that returns the second token, which only an apply wrote,
\* with the sandbox flag, over a primary file that held other env keys before
C3_Witness ==
  /\ Succeeded("get")
  /\ DOMAIN last.res.v = CredKeys \cup {"IS_SANDBOX"}
  /\ last.res.v["ANTHROPIC_API_KEY"] = Tok(2)
  /\ last.res.v["ANTHROPIC_BASE_URL"] = Url(2)

\* C4: a primary file that exists and is not valid JSON makes load fail,
\* whatever the alternatives hold; no fallback, no empty mapping.
C4_CorruptPrimaryFails ==
  (last.op = "load" /\ primary = Corrupt) => ~last.res.ok

\* C4 witness: load failed on a corrupt primary file next to a valid alternative
C4_Witness ==
  /\ last.op = "load" /\ primary = Corrupt /\ ~last.res.ok
  /\ \E n \in StructuredAlts : IsJsonText(alts[n])

\* C5: when the primary file is valid JSON, load returns the document of the
\* primary file, a function of the primary content alone.
C5_PrimaryAloneDecides ==
  (last.op = "load" /\ IsJsonText(primary)) => last.res = Ok(primary.v)

\* C5 witness: load of a valid primary file next to a corrupt, an unreadable
\* and a valid alternative
C5_Witness ==
  /\ last.op = "load" /\ IsJsonText(primary) /\ last.res.ok
  /\ \E n \in StructuredAlts : alts[n] = Corrupt
  /\ \E n \in StructuredAlts : IsJsonText(alts[n])
  /\ claudeMd = Unreadable

\* whether the alternative at position i ends the scan with a document
Yields(i) ==
  LET name == get_alternative_settings_files[i]
  IN IF name = "CLAUDE.md" THEN claudeMd.f = "md" ELSE IsJsonText(alts[name])

\* the document the alternative at position i stands for
DocumentOf(i) ==
  LET name == get_alternative_settings_files[i]
  IN IF name = "CLAUDE.md" THEN parse_claude_md(claudeMd).v ELSE alts[name].v

AltPositions == 1..Len(get_alternative_settings_files)

C6_WitnessEmpty ==
  /\ last.op = "load" /\ primary = Absent /\ claudeMd = Absent
  /\ \A n \in StructuredAlts : alts[n] = Corrupt
  /\ last.res = Ok(EmptyObj)

\* CLAUDE.md is the source load reaches: no primary file, and every
\* structured alternative is missing or fails to parse
MdIsReached ==
  /\ primary = Absent
  /\ \A n \in StructuredAlts : alts[n] \in {Absent, Corrupt}
  /\ claudeMd.f = "md"

\* the recognized key a line carries, "" for any other line
KeyOfLine(line) ==
  IF StartsWith(Trim(line), PrefixApiKey) THEN "ANTHROPIC_API_KEY"
  ELSE IF StartsWith(Trim(line), PrefixBaseUrl) THEN "ANTHROPIC_BASE_URL"
  ELSE IF StartsWith(Trim(line), PrefixClaudeKey) THEN "CLAUDE_API_KEY"
  ELSE ""

\* everything after the first "=" of the trimmed line, trimmed
Remainder(line) ==
  LET t == Trim(line)
  IN Trim(SubSeq(t, Find(t, "=") + 1, Len(t)))

MdLines == StrLines(claudeMd.chars)

MdKeys == {KeyOfLine(MdLines[i]) : i \in 1..Len(MdLines)} \ {""}

\* the last line of the file that carries the key
LastLineOf(key) ==
  MdLines[CHOOSE i \in 1..Len(MdLines) :
            /\ KeyOfLine(MdLines[i]) = key
            /\ \A j \in (i + 1)..Len(MdLines) : KeyOfLine(MdLines[j]) # key]

\* C7: the value stored for a recognized line of CLAUDE.md is the whole
\* trimmed remainder of the line after its first "=", further "=" included.
C7_WholeRemainderStored ==
  (last.op = "load" /\ MdIsReached) =>
    \A key \in MdKeys :
      /\ last.res.ok /\ HasKey(last.res.v, "env")
      /\ key \in DOMAIN last.res.v.m["env"].m
      /\ last.res.v.m["env"].m[key] = Str(Remainder(LastLineOf(key)))

\* C8: when load reaches CLAUDE.md the result is the empty mapping if no line
\* is recognized, and otherwise the mapping with the single key env holding
\* exactly the keys recognized in some line, each with the value stored for
\* its last line in the file; never a mapping with an empty env.
C8_MdLastWriteWins ==
  (last.op = "load" /\ MdIsReached) =>
    IF MdKeys = {} THEN last.res = Ok(EmptyObj)
    ELSE /\ last.res.ok /\ IsObject(last.res.v)
         /\ DOMAIN last.res.v.m = {"env"}
         /\ IsObject(last.res.v.m["env"])
         /\ DOMAIN last.res.v.m["env"].m = MdKeys
         /\ \A key \in MdKeys :
              last.res.v.m["env"].m[key] = Str(LineValue(LastLineOf(key)))

\* C8 witness: two lines carry ANTHROPIC_API_KEY with different values and
\* load returned the value of the second
C8_Witness ==
  /\ last.op = "load" /\ MdIsReached /\ last.res.ok
  /\ Len(MdLines) = 2
  /\ KeyOfLine(MdLines[1]) = "ANTHROPIC_API_KEY" /\ KeyOfLine(MdLines[2]) = "ANTHROPIC_API_KEY"
  /\ LineValue(MdLines[1]) # LineValue(MdLines[2])
  /\ last.res.v.m["env"].m["ANTHROPIC_API_KEY"] = Str(LineValue(MdLines[2]))

\* C8 witness, second case: a file with lines, none recognized
C8_WitnessNone ==
  /\ last.op = "load" /\ MdIsReached
  /\ Len(MdLines) > 0 /\ MdKeys = {}
  /\ last.res = Ok(EmptyObj)

\* C9: clear_credentials on a document whose env is a mapping removes exactly
\* the three credential keys from env, keeps every other env key and every
\* other top-level key, and drops env itself exactly when nothing is left.
C9_ClearRemovesCredentialKeys ==
  (Succeeded("clear") /\ LoadedBefore.ok /\ HasKey(LoadedBefore.v, "env")
     /\ IsObject(LoadedBefore.v.m["env"])) =>
    LET old == LoadedBefore.v.m
        rest == (DOMAIN old["env"].m) \ CredKeys
    IN /\ IsMappingFile(primary)
       /\ (DOMAIN primary.v.m) \ {"env"} = (DOMAIN old) \ {"env"}
       /\ \A key \in (DOMAIN old) \ {"env"} : primary.v.m[key] = old[key]
       /\ "env" \in DOMAIN primary.v.m <=> rest # {}
       /\ rest # {} =>
            /\ IsObject(primary.v.m["env"])
            /\ DOMAIN primary.v.m["env"].m = rest
            /\ \A key \in rest : primary.v.m["env"].m[key] = old["env"].m[key]

\* C9 witness: env held the three credential keys, IS_SANDBOX and an extra
\* key next to a sibling key; the clear kept the two and the sibling
C9_Witness ==
  /\ Succeeded("clear") /\ IsMappingFile(before.primary)
  /\ HasKey(before.primary.v, "foo") /\ HasKey(before.primary.v, "env")
  /\ IsObject(before.primary.v.m["env"])
  /\ DOMAIN before.primary.v.m["env"].m = CredKeys \cup {"IS_SANDBOX", "EXTRA"}
  /\ DOMAIN primary.v.m["env"].m = {"IS_SANDBOX", "EXTRA"}

\* C9 witness, second case: env held only credential keys and is gone
C9_WitnessEnvRemoved ==
  /\ Succeeded("clear") /\ IsMappingFile(before.primary)
  /\ HasKey(before.primary.v, "env") /\ IsObject(before.primary.v.m["env"])
  /\ DOMAIN before.primary.v.m["env"].m = CredKeys
  /\ ~HasKey(primary.v, "env")

\* C10: after a successful apply_credentials the template file exists and
\* holds the bundled payload, whatever was at that path before.
C10_TemplateIsPayload ==
  Succeeded("apply") => template = TplFile(CLAUDE_LOCAL_MD_CONTENT)

\* C10 witness: the path held a different file before the apply
C10_Witness ==
  /\ Succeeded("apply")
  /\ before.template = TplFile("user notes")
  /\ template = TplFile(CLAUDE_LOCAL_MD_CONTENT)

\* the mapping get_credentials returns for the credentials of an apply
CredentialsOf(args) ==
  [j \in CredKeys \cup (IF args.is_sandbox THEN {"IS_SANDBOX"} ELSE {}) |->
     IF j = "ANTHROPIC_BASE_URL" THEN args.base_url
     ELSE IF j = "IS_SANDBOX" THEN <<"1">> ELSE args.token]

\* C11: in apply_credentials the settings write comes before the template
\* write and is not undone: when template provisioning fails the call
\* reports failure, the config directory exists, the primary file holds the
\* new credential block, and a get_credentials that follows returns the new
\* credentials.
C11_TemplateFailureKeepsSettings ==
  /\ [](last.op = "apply" /\ last.res = Err("copy") =>
          /\ claudeDir = "dir"
          /\ IsMappingFile(primary) /\ HasKey(primary.v, "env")
          /\ IsObject(primary.v.m["env"])
          /\ DOMAIN primary.v.m["env"].m = DOMAIN CredentialsOf(last.args)
          /\ \A key \in DOMAIN CredentialsOf(last.args) :
               primary.v.m["env"].m[key] = Str(CredentialsOf(last.args)[key]))
  /\ [][(last.op = "apply" /\ last.res = Err("copy") /\ last'.op = "get") =>
          last'.res = Ok(CredentialsOf(last.args))]_vars

\* C11 witness: the src-tauri build finds no template source; the apply
\* failed after it created .claude and wrote the second account
C11_Witness ==
  /\ last.op = "apply" /\ last.res = Err("copy")
  /\ before.primary = Absent /\ claudeDir = "dir" /\ variant = "tauri"
  /\ IsMappingFile(primary) /\ HasKey(primary.v, "env")
  /\ primary.v.m["env"].m["ANTHROPIC_API_KEY"] = Str(Tok(2))
  /\ \A n \in InClaudeDir : alts[n] = Absent

\* both callers loaded before either began to write
LoadsBeforeWrites ==
  Len(events) >= 2 /\ events[1][2] = "load" /\ events[2][2] = "load"

BothReturned == \A p \in Callers : calls[p].pc = "done"

\* the caller whose content reached the file last
LastWriter ==
  events[CHOOSE i \in 1..Len(events) :
           /\ events[i][2] = "written"
           /\ \A j \in (i + 1)..Len(events) : events[j][2] # "written"][1]

\* the document a call makes of a document
Effect(p, doc) ==
  IF calls[p].op = "apply"
  THEN UpdatedSettings(doc, calls[p].args.token, calls[p].args.base_url, calls[p].args.is_sandbox)
  ELSE ClearedSettings(doc)

\* the document the two calls leave when p runs to its end before q starts
Serial(p, q) == Effect(q, Effect(p, calls[p].loaded))

\* C12: without a lock, when two write operations on a root both load before
\* either writes, both succeed and the file ends as the later writer's
\* document, computed from what that caller loaded: the earlier write is
\* overwritten whole.
C12_LaterWriteOverwrites ==
  (BothReturned /\ LoadsBeforeWrites) =>
    /\ \A p \in Callers : calls[p].res.ok
    /\ primary = JsonText(Effect(LastWriter, calls[LastWriter].loaded))

\* C12 witness: an apply and a clear interleaved so, and the final file is
\* the result of neither serial order: an update is lost
C12_Witness ==
  /\ BothReturned /\ LoadsBeforeWrites
  /\ {calls[p].op : p \in Callers} = {"apply", "clear"}
  /\ IsJsonText(primary)
  /\ primary.v # Serial(1, 2) /\ primary.v # Serial(2, 1)

\* caller p alone has a call under way or behind it, which loaded a document
OnlyCall(p) ==
  /\ \A q \in Callers \ {p} : calls[q].pc = "idle"
  /\ calls[p].pc \in {"loaded", "writing", "copying"} \/ (calls[p].pc = "done" /\ calls[p].res.ok)

\* C13: the write of the primary file is atomic: a load at any point of an
\* apply_credentials or clear_credentials on the root, or after the call was
\* interrupted in its write, sees the complete previous content or the
\* complete new content, never an empty or partial file.
C13_WriteIsAtomic ==
  [][\A p \in Callers :
       (last'.op = "load" /\ calls' = calls /\ OnlyCall(p)) =>
         last'.res \in {Ok(calls[p].loaded), Ok(calls[p].settings)}]_vars

\* C14: a second apply_credentials with the same token, base URL and sandbox
\* flag, right after a successful first one, succeeds and leaves the primary
\* file (env and every other top-level key) and the template file as the
\* first left them.
C14_ApplyTwiceIsIdempotent ==
  [][(last.op = "apply" /\ last.res.ok /\ last'.op = "apply" /\ last'.args = last.args) =>
       /\ last'.res.ok
       /\ primary' = primary
       /\ template' = template]_vars

\* C14 witness: an apply of the second account found the file and the
\* template already as it leaves them, next to a sibling key
C14_Witness ==
  /\ Succeeded("apply") /\ last.args.token = Tok(2)
  /\ before.primary = primary /\ before.template = template
  /\ HasKey(primary.v, "foo")
  /\ primary.v.m["env"].m["ANTHROPIC_AUTH_TOKEN"] = Str(Tok(2))

\* C15: whatever the sequence of apply_credentials, clear_credentials and
\* get_credentials, no alternative source (the three structured files and
\* CLAUDE.md) is created, modified or deleted; clear_credentials leaves the
\* template file as it was; get_credentials changes no file and no directory.
C15_FixedWriteSet ==
  [][/\ alts' = alts
     /\ claudeMd' = claudeMd
     /\ last'.op = "clear" => template' = template
     /\ last'.op = "get" => /\ claudeDir' = claudeDir
                            /\ primary' = primary
                            /\ template' = template]_vars

\* C15 witness: a clear created the primary file on a root that has an
\* alternative and CLAUDE.md, and no template before or after
C15_Witness ==
  /\ Succeeded("clear")
  /\ before.primary = Absent /\ Exists(primary)
  /\ Exists(alts[".claude_config"]) /\ Exists(claudeMd)
  /\ before.template = Absent /\ template = Absent

\* C15 witness: a get on a root whose primary file and template exist
C15_WitnessGet ==
  /\ last.op = "get" /\ last.res.ok
  /\ Exists(primary) /\ Exists(template)
  /\ before = Snapshot

\* C16: a primary file that is valid JSON but no object (array, number,
\* null) is returned by the loader as it is; clear_credentials writes it back
\* as it is; apply_credentials alone normalizes it: it writes a primary file
\* that is exactly the mapping {env: credential block}, no other key.
C16_OnlyApplyNormalizes ==
  (IsJsonText(before.primary) /\ ~IsObject(before.primary.v)) =>
     /\ last.op = "load" => last.res = Ok(before.primary.v) /\ primary = before.primary
     /\ last.op = "clear" => last.res = Ok(Bool(TRUE)) /\ primary = before.primary
     /\ last.op = "apply" =>
          primary = JsonText(Obj([j \in {"env"} |->
                       Obj([i \in DOMAIN CredentialsOf(last.args) |->
                              Str(CredentialsOf(last.args)[i])])]))

\* C16 witness: an apply with the sandbox flag on a primary file holding an array
C16_Witness ==
  /\ before.primary = JsonText(Arr(<<Num(1)>>))
  /\ Succeeded("apply") /\ last.args.is_sandbox
  /\ DOMAIN primary.v.m = {"env"}
  /\ DOMAIN primary.v.m["env"].m = CredKeys \cup {"IS_SANDBOX"}

\* C16 witness: a load of a primary file holding null returned null
C16_WitnessLoad ==
  /\ before.primary = JsonText(Null) /\ last.op = "load" /\ last.res = Ok(Null)

\* C17: when the load inside apply_credentials or clear_credentials fails
\* (corrupt primary file, unreadable source) the call returns that error and
\* the config directory, the primary file, the template file and every
\* alternative are exactly as before the call.
C17_LoadErrorChangesNothing ==
  [][(~read_settings.ok /\ last'.op \in {"apply", "clear"}) =>
       /\ last'.res = read_settings
       /\ claudeDir' = claudeDir
       /\ primary' = primary
       /\ template' = template
       /\ alts' = alts
       /\ claudeMd' = claudeMd]_vars

\* C17 witness: a clear failed on an unreadable alternative of a root that
\* has no config directory, and there is still none
C17_Witness ==
  /\ last.op = "clear" /\ last.res = Err("io")
  /\ before.primary = Absent /\ primary = Absent
  /\ alts[".claude_config"] = Unreadable
  /\ claudeDir = "absent"

\* C17 witness: an apply failed on a corrupt primary file, which is still there
C17_WitnessCorrupt ==
  /\ last.op = "apply" /\ last.res = Err("parse")
  /\ before.primary = Corrupt /\ primary = Corrupt /\ template = Absent

\* what a call returns, and the primary file it leaves, when only the primary
\* file is looked at
PrimaryOnly(op, args) ==
  LET loaded == FromStr(primary)
  IN IF ~loaded.ok THEN [res |-> loaded, primary |-> primary]
     ELSE IF op = "load" THEN [res |-> loaded, primary |-> primary]
     ELSE IF op = "get" THEN [res |-> Ok(EnvStrings(loaded.v)), primary |-> primary]
     ELSE IF op = "clear"
     THEN [res |-> Ok(Bool(TRUE)), primary |-> JsonText(ClearedSettings(loaded.v))]
     ELSE [res |-> IF CopyOk(variant, resources, template) THEN Ok(Bool(TRUE)) ELSE Err("copy"),
           primary |-> JsonText(UpdatedSettings(loaded.v, args.token, args.base_url,
                                                args.is_sandbox))]

\* C18: after a successful apply_credentials or clear_credentials the primary
\* file exists; no operation deletes an existing primary file; and once it
\* exists the result and the effect of every load, get_credentials,
\* apply_credentials and clear_credentials are those computed from the
\* primary file alone, whatever the alternative sources hold.
C18_PrimaryIsSticky ==
  /\ []((Succeeded("apply") \/ Succeeded("clear")) => Exists(primary))
  /\ [][Exists(primary) =>
          /\ Exists(primary')
          /\ last'.res = PrimaryOnly(last'.op, last'.args).res
          /\ primary' = PrimaryOnly(last'.op, last'.args).primary]_vars

\* C18 witness: an apply migrated an alternative into the primary file, the
\* alternative is still there, and a later load returned the primary document
C18_Witness ==
  /\ last.op = "load" /\ IsJsonText(primary) /\ last.res = Ok(primary.v)
  /\ alts[".claude_config"] = JsonText(AltDoc(".claude_config"))
  /\ primary.v # alts[".claude_config"].v
  /\ HasKey(primary.v, "from") /\ primary.v.m["from"] = Str(<<".claude_config">>)
  /\ primary.v.m["env"].m["ANTHROPIC_AUTH_TOKEN"] = Str(Tok(1))

\* the alternative the scan takes its document from: the first that yields,
\* none before it being unreadable; 0 when there is none
SourcePosition ==
  IF \E i \in AltPositions :
       /\ Yields(i)
       /\ \A j \in 1..(i - 1) :
            ~Yields(j) /\ AltFile(alts, claudeMd, get_alternative_settings_files[j]) # Unreadable
  THEN CHOOSE i \in AltPositions : Yields(i) /\ \A j \in 1..(i - 1) : ~Yields(j)
  ELSE 0

\* a document without the three credential keys of its env, env dropped when
\* nothing is left in it
WithoutCredentials(doc) ==
  IF HasKey(doc, "env") /\ IsObject(doc.m["env"])
  THEN LET rest == (DOMAIN doc.m["env"].m) \ CredKeys
       IN IF rest = {} THEN Obj([j \in (DOMAIN doc.m) \ {"env"} |-> doc.m[j]])
          ELSE Obj([j \in DOMAIN doc.m |->
                      IF j = "env" THEN Obj([i \in rest |-> doc.m["env"].m[i]]) ELSE doc.m[j]])
  ELSE doc

\* C19: with no primary file and a document taken from an alternative, a
\* write creates the primary file from that document: apply_credentials
\* writes every top-level key of the alternative other than env next to the
\* new env, clear_credentials writes the alternative's document without the
\* three credential keys; on a root with no source at all clear_credentials
\* creates a primary file holding the empty mapping.
C19_AlternativeIsMigrated ==
  /\ (before.primary = Absent /\ SourcePosition # 0) =>
       LET doc == DocumentOf(SourcePosition)
       IN /\ (last.op = "apply" /\ Exists(primary) /\ IsObject(doc)) =>
               /\ IsMappingFile(primary)
               /\ DOMAIN primary.v.m = (DOMAIN doc.m) \cup {"env"}
               /\ \A j \in (DOMAIN doc.m) \ {"env"} : primary.v.m[j] = doc.m[j]
               /\ primary.v.m["env"] =
                    Obj([i \in DOMAIN CredentialsOf(last.args) |->
                           Str(CredentialsOf(last.args)[i])])
          /\ Succeeded("clear") => primary = JsonText(WithoutCredentials(doc))
  /\ (/\ before.primary = Absent /\ Succeeded("clear")
      /\ \A i \in AltPositions :
           AltFile(alts, claudeMd, get_alternative_settings_files[i]) = Absent)
       => primary = JsonText(EmptyObj)

\* C19 witness: an apply created the primary file from the third alternative,
\* whose sibling key stands next to the new env
C19_Witness ==
  /\ Succeeded("apply") /\ before.primary = Absent
  /\ alts["settings.json"] = Corrupt /\ alts["claude_config.json"] = Absent
  /\ alts[".claude_config"] = JsonText(AltDoc(".claude_config"))
  /\ primary.v.m["from"] = Str(<<".claude_config">>)
  /\ primary.v.m["env"].m["ANTHROPIC_AUTH_TOKEN"] = Str(Tok(2))
  /\ "EXTRA" \notin DOMAIN primary.v.m["env"].m

\* C19 witness: a clear created the primary file from the first alternative,
\* keeping its sibling key and the env key that is no credential
C19_WitnessClear ==
  /\ Succeeded("clear") /\ before.primary = Absent
  /\ alts["settings.json"] = JsonText(AltDoc("settings.json"))
  /\ primary.v.m["from"] = Str(<<"settings.json">>)
  /\ DOMAIN primary.v.m["env"].m = {"EXTRA"}

\* C19 witness: a clear on a root with no source created an empty mapping
C19_WitnessNoSource ==
  /\ Succeeded("clear") /\ before.primary = Absent /\ claudeMd = Absent
  /\ \A n \in StructuredAlts : alts[n] = Absent
  /\ primary = JsonText(EmptyObj)

\* C20: with no primary file, a structured alternative that exists and holds
\* valid JSON whose root is no mapping (null, a number, an array), every
\* alternative before it being missing or unparseable, ends the scan: load
\* returns that value, whatever the later alternatives and CLAUDE.md hold.
C20_NonMappingEndsScan ==
  (last.op = "load" /\ primary = Absent) =>
    \A i \in AltPositions :
      LET name == get_alternative_settings_files[i]
      IN (/\ name \in StructuredAlts
          /\ IsJsonText(alts[name]) /\ ~IsObject(alts[name].v)
          /\ \A j \in 1..(i - 1) :
               alts[get_alternative_settings_files[j]] \in {Absent, Corrupt})
           => last.res = Ok(alts[name].v)

\* C20 witness: load returned the array of the first alternative although the
\* second holds a mapping and CLAUDE.md a recognized line
C20_Witness ==
  /\ last.op = "load" /\ primary = Absent
  /\ alts["settings.json"] = JsonText(Arr(<<Num(1)>>))
  /\ alts["claude_config.json"] = JsonText(AltDoc("claude_config.json"))
  /\ claudeMd.f = "md" /\ parse_claude_md(claudeMd).v # EmptyObj
  /\ last.res = Ok(Arr(<<Num(1)>>))

\* C20 witness: load returned the null of the second alternative, the first
\* being corrupt and the third unreadable
C20_WitnessNull ==
  /\ last.op = "load" /\ primary = Absent
  /\ alts["settings.json"] = Corrupt
  /\ alts["claude_config.json"] = JsonText(Null)
  /\ alts[".claude_config"] = Unreadable
  /\ last.res = Ok(Null)

====
